---- MODULE Spec2Model ----
(***************************************************************************)
(* Model of the vertical interpolation core of PGW4ERA5 (functions.py):    *)
(* interp_extrap_1d, replace_delta_sfc, vert_interp_delta (with            *)
(* interp_logp_3d / interp_1d_for_latlon), determine_p_ref and             *)
(* harmonic_ac_analysis.                                                   *)
(*                                                                         *)
(* Floating point values are modelled as exact rationals <<num, den>> with *)
(* den > 0; pressures and source values are small integers.  Python's None *)
(* is the empty tuple and a present value v is <<v>>.  NaN is the pair      *)
(* <<0, 0>>.                                                               *)
(***************************************************************************)
EXTENDS Integers, Sequences, FiniteSets, TLC

\* ------------------------------------------------------------------ bounds
\* longest source column (number of source levels N)
MaxN == 3
\* largest number of target levels M of one call of interp_extrap_1d
MaxM == 2
\* largest source pressure; targets range over 0..MaxP+1
MaxP == 3
\* largest pressure level of the climate delta file; the target and surface
\* pressures of vert_interp_delta range over 1..MaxPlev+1
MaxPlev == 4
\* longest list of candidate reference levels p_ref_opts
MaxOpts == 3
\* largest number of successive calls of determine_p_ref
MaxCalls == 3
\* longest timeseries given to harmonic_ac_analysis
MaxLt == 9

\* source values of a column
Values == {0, 1, 3}
\* finite values of a timeseries
TsValues == {0, 2}
\* what a read beyond the end of an array may yield in the compiled code
Garbage == 0 .. MaxP

None == <<>>
Some(v) == <<v>>

\* ---------------------------------------------------------------- helpers
\* strictly ascending sequences of length n over 1..top
AscendingTo(n, top) == { s \in [1 .. n -> 1 .. top] : \A i \in 1 .. n - 1 : s[i] < s[i + 1] }
Ascending(n) == AscendingTo(n, MaxP)

RECURSIVE SeqMin(_)
SeqMin(s) == IF Len(s) = 1 THEN s[1]
             ELSE LET m == SeqMin(Tail(s)) IN IF s[1] < m THEN s[1] ELSE m

RECURSIVE SeqMax(_)
SeqMax(s) == IF Len(s) = 1 THEN s[1]
             ELSE LET m == SeqMax(Tail(s)) IN IF s[1] > m THEN s[1] ELSE m

\* exact rational n/d, kept with a positive denominator
Rat(n, d) == IF d < 0 THEN <<0 - n, 0 - d>> ELSE <<n, d>>
RatEqInt(r, v) == r[1] = v * r[2]
RatLeInt(r, v) == r[1] <= v * r[2]
RatGeInt(r, v) == r[1] >= v * r[2]

\* ------------------------------------------------------------------ state
\* interp_extrap_1d: arguments, loop position, working array and outcome
VARIABLES src_x, src_y, targ_x, extrapolate, ti, targ_y, ipc, iret, ierr, ioob

interpVars == <<src_x, src_y, targ_x, extrapolate, ti, targ_y, ipc, iret, ierr, ioob>>

\* replace_delta_sfc: arguments, control position and outcome
VARIABLES rd_source_P, rd_ps_hist, rd_delta, rd_delta_sfc, rd_pc, rd_out, rd_err

spliceVars == <<rd_source_P, rd_ps_hist, rd_delta, rd_delta_sfc, rd_pc, rd_out, rd_err>>

\* vert_interp_delta: arguments, working arrays, control position and outcome
VARIABLES plev, delta, target_P, delta_sfc, ps_hist, ignore_top_pressure_error,
          source_P, vpc, verr, col, tmp, delta_interp

vertVars == <<plev, delta, target_P, delta_sfc, ps_hist, ignore_top_pressure_error,
              source_P, vpc, verr, col, tmp, delta_interp>>

\* determine_p_ref: the candidates, the arguments and result of the latest
\* call, the p_ref_last the next call receives, and the results so far
VARIABLES p_ref_opts, ps_era, ps_pgw, p_ref_last, p_ref, p_ref_hist, ppc

prefVars == <<p_ref_opts, ps_era, ps_pgw, p_ref_last, p_ref, p_ref_hist, ppc>>

\* harmonic_ac_analysis: the caller's array and its content at the call, the
\* locals mean, hcts and i, the control position and the outcome
VARIABLES ts, ts_at_call, mean, hcts, mode_i, hpc, smooths, herr

harmVars == <<ts, ts_at_call, mean, hcts, mode_i, hpc, smooths, herr>>

vars == <<interpVars, spliceVars, vertVars, prefVars, harmVars>>

Modes == {"off", "linear", "constant"}

\* ------------------------------------------------------- interp_extrap_1d
\* s[i] as the compiled code reads it: 0-based, a negative index counts from
\* the end, and an index beyond the array reads memory that is not the
\* array's (g stands for what is found there)
PyIndex(s, i, g) ==
    IF i >= 0 /\ i < Len(s) THEN s[i + 1]
    ELSE IF i < 0 /\ i >= 0 - Len(s) THEN s[Len(s) + i + 1]
    ELSE g

IndexOutside(s, i) == i < 0 \/ i >= Len(s)

\* ScanFrom with the lower-end test taken as "src_x[si] >= targ_x[ti]"
RECURSIVE ScanFrom_LowerInclusive(_, _, _, _)
ScanFrom_LowerInclusive(x, t, mode, si) ==
    IF si >= Len(x) THEN [i1 |-> -1, i2 |-> -1, require_extrap |-> FALSE]
    ELSE IF si = 0 /\ x[si + 1] >= t THEN
        [i1 |-> IF mode \in {"linear", "constant"} THEN si ELSE -1,
         i2 |-> IF mode = "linear" THEN si + 1
                ELSE IF mode = "constant" THEN si ELSE -1,
         require_extrap |-> TRUE]
    ELSE IF x[si + 1] = t THEN [i1 |-> si, i2 |-> si, require_extrap |-> FALSE]
    ELSE IF x[si + 1] > t THEN [i1 |-> si - 1, i2 |-> si, require_extrap |-> FALSE]
    ELSE ScanFrom_LowerInclusive(x, t, mode, si + 1)

\* ScanFrom with the lower end of 'constant' bracketed as in 'linear'
RECURSIVE ScanFrom_LowerConstantAsLinear(_, _, _, _)
ScanFrom_LowerConstantAsLinear(x, t, mode, si) ==
    IF si >= Len(x) THEN [i1 |-> -1, i2 |-> -1, require_extrap |-> FALSE]
    ELSE IF si = 0 /\ x[si + 1] > t THEN
        [i1 |-> IF mode \in {"linear", "constant"} THEN si ELSE -1,
         i2 |-> IF mode \in {"linear", "constant"} THEN si + 1 ELSE -1,
         require_extrap |-> TRUE]
    ELSE IF x[si + 1] = t THEN [i1 |-> si, i2 |-> si, require_extrap |-> FALSE]
    ELSE IF x[si + 1] > t THEN [i1 |-> si - 1, i2 |-> si, require_extrap |-> FALSE]
    ELSE ScanFrom_LowerConstantAsLinear(x, t, mode, si + 1)

\* the scan "for si in range(len(src_x))" from si on (0-based), up to its
\* break: the bracket indices and whether extrapolation was flagged
RECURSIVE ScanFrom(_, _, _, _)
ScanFrom(x, t, mode, si) ==
    IF si >= Len(x) THEN [i1 |-> -1, i2 |-> -1, require_extrap |-> FALSE]
    ELSE IF si = 0 /\ x[si + 1] > t THEN
        [i1 |-> IF mode \in {"linear", "constant"} THEN si ELSE -1,
         i2 |-> IF mode = "linear" THEN si + 1
                ELSE IF mode = "constant" THEN si ELSE -1,
         require_extrap |-> TRUE]
    ELSE IF x[si + 1] = t THEN [i1 |-> si, i2 |-> si, require_extrap |-> FALSE]
    ELSE IF x[si + 1] > t THEN [i1 |-> si - 1, i2 |-> si, require_extrap |-> FALSE]
    ELSE ScanFrom(x, t, mode, si + 1)

\* the scan of one target from the first source level
Scan(x, t, mode) == ScanFrom(x, t, mode, 0)

\* Bracket with the trailing case not flagged as extrapolation
Bracket_NoUpperFlag(x, t, mode) ==
    LET b == Scan(x, t, mode) IN
    IF b.i1 = -1 THEN
        [i1 |-> IF mode = "linear" THEN Len(x) - 2
                ELSE IF mode = "constant" THEN Len(x) - 1 ELSE b.i1,
         i2 |-> IF mode = "linear" THEN Len(x) - 1
                ELSE IF mode = "constant" THEN Len(x) - 1 ELSE b.i2,
         require_extrap |-> b.require_extrap]
    ELSE b

\* Bracket with the trailing case of 'constant' bracketed as in 'linear'
Bracket_ConstantAsLinear(x, t, mode) ==
    LET b == Scan(x, t, mode) IN
    IF b.i1 = -1 THEN
        [i1 |-> IF mode \in {"linear", "constant"} THEN Len(x) - 2 ELSE b.i1,
         i2 |-> IF mode \in {"linear", "constant"} THEN Len(x) - 1 ELSE b.i2,
         require_extrap |-> TRUE]
    ELSE b

\* the bracket after the trailing "extrapolate upper end" case
Bracket(x, t, mode) ==
    LET b == Scan(x, t, mode) IN
    IF b.i1 = -1 THEN
        [i1 |-> IF mode = "linear" THEN Len(x) - 2
                ELSE IF mode = "constant" THEN Len(x) - 1 ELSE b.i1,
         i2 |-> IF mode = "linear" THEN Len(x) - 1
                ELSE IF mode = "constant" THEN Len(x) - 1 ELSE b.i2,
         require_extrap |-> TRUE]
    ELSE b

\* one iteration of the loop over the targets: the error raised or the value
\* stored at targ_y[ti], and whether an index outside 0..N-1 was read
TargetOutcome(x, y, t, mode, gx, gy) ==
    LET b == Bracket(x, t, mode) IN
    IF b.require_extrap /\ mode = "off" THEN
        [kind |-> "OutOfRangeError", val |-> Rat(0, 1), outside |-> FALSE]
    ELSE IF b.i1 = b.i2 THEN
        [kind |-> "value", val |-> Rat(PyIndex(y, b.i1, gy), 1),
         outside |-> IndexOutside(y, b.i1)]
    ELSE
        LET x1 == PyIndex(x, b.i1, gx)
            x2 == PyIndex(x, b.i2, gx)
            y1 == PyIndex(y, b.i1, gy)
            y2 == PyIndex(y, b.i2, gy)
            outside == IndexOutside(x, b.i1) \/ IndexOutside(x, b.i2)
        IN  IF x2 - x1 = 0 THEN
                [kind |-> "ZeroDivisionError", val |-> Rat(0, 1), outside |-> outside]
            ELSE
                [kind |-> "value",
                 val |-> Rat(y1 * (x2 - x1) + (t - x1) * (y2 - y1), x2 - x1),
                 outside |-> outside]

\* whether the iteration reads beyond the end of an array
ReadsBeyond(x, t, mode) ==
    LET b == Bracket(x, t, mode) IN
    ~(b.require_extrap /\ mode = "off") /\ (b.i1 >= Len(x) \/ b.i2 >= Len(x))

InterpEntry ==
    /\ \E n \in 1 .. MaxN :
          /\ src_x \in Ascending(n)
          /\ src_y \in [1 .. n -> Values]
    /\ \E m \in 1 .. MaxM :
          /\ targ_x \in [1 .. m -> 0 .. MaxP + 1]
          /\ targ_y = [i \in 1 .. m |-> Rat(0, 1)]
    /\ extrapolate \in Modes
    /\ ti = 0
    /\ ipc = "loop"
    /\ iret = None
    /\ ierr = "none"
    /\ ioob = FALSE

\* the body of "for ti in range(len(targ_x))" for the current ti
interp_extrap_1d_iter ==
    /\ ipc = "loop"
    /\ ti < Len(targ_x)
    /\ \E gx \in (IF ReadsBeyond(src_x, targ_x[ti + 1], extrapolate) THEN Garbage ELSE {0}),
          gy \in (IF ReadsBeyond(src_x, targ_x[ti + 1], extrapolate) THEN Values ELSE {0}) :
          LET o == TargetOutcome(src_x, src_y, targ_x[ti + 1], extrapolate, gx, gy) IN
          /\ ioob' = (ioob \/ o.outside)
          /\ IF o.kind = "value"
             THEN /\ targ_y' = [targ_y EXCEPT ![ti + 1] = o.val]
                  /\ ti' = ti + 1
                  /\ UNCHANGED <<ipc, ierr>>
             ELSE /\ ipc' = "raised"
                  /\ ierr' = o.kind
                  /\ UNCHANGED <<targ_y, ti>>
    /\ UNCHANGED <<src_x, src_y, targ_x, extrapolate, iret>>
    /\ UNCHANGED <<spliceVars, vertVars, prefVars, harmVars>>

\* "return(targ_y)" once the loop is over
interp_extrap_1d_return ==
    /\ ipc = "loop"
    /\ ti = Len(targ_x)
    /\ ipc' = "returned"
    /\ iret' = Some(targ_y)
    /\ UNCHANGED <<src_x, src_y, targ_x, extrapolate, ti, targ_y, ierr, ioob>>
    /\ UNCHANGED <<spliceVars, vertVars, prefVars, harmVars>>

NextInterp ==
    \/ interp_extrap_1d_iter
    \/ interp_extrap_1d_return

\* ------------------------------------------------------ replace_delta_sfc
\* the indices np.argwhere(ps_hist > source_P) yields (0-based)
ArgWhereBelow(P, ps) == { i \in 0 .. Len(P) - 1 : ps > P[i + 1] }

SetMax(S) == CHOOSE m \in S : \A e \in S : e <= m

\* replace_delta_sfc with only the level at sfc_ind overwritten
replace_delta_sfc_OnlyThatLevel(P, ps, d, dsfc) ==
    IF ps > SeqMax(P) THEN
        [kind |-> "value",
         out_source_P |-> [P EXCEPT ![Len(P)] = ps],
         out_delta |-> [d EXCEPT ![Len(P)] = dsfc]]
    ELSE IF ps < SeqMin(P) THEN
        [kind |-> "SurfaceBoundsError", out_source_P |-> <<>>, out_delta |-> <<>>]
    ELSE IF ArgWhereBelow(P, ps) = {} THEN
        [kind |-> "EmptyReductionError", out_source_P |-> <<>>, out_delta |-> <<>>]
    ELSE
        LET sfc_ind == SetMax(ArgWhereBelow(P, ps)) IN
        [kind |-> "value",
         out_source_P |-> [P EXCEPT ![sfc_ind + 1] = ps],
         out_delta |-> [d EXCEPT ![sfc_ind + 1] = dsfc]]

\* replace_delta_sfc(source_P, ps_hist, delta, delta_sfc): the pair returned,
\* or the error raised: the ValueError of line 243 ("SurfaceBoundsError"), or
\* the ValueError np.max raises on the empty result of np.argwhere
\* ("EmptyReductionError")
replace_delta_sfc(P, ps, d, dsfc) ==
    IF ps > SeqMax(P) THEN
        [kind |-> "value",
         out_source_P |-> [P EXCEPT ![Len(P)] = ps],
         out_delta |-> [d EXCEPT ![Len(P)] = dsfc]]
    ELSE IF ps < SeqMin(P) THEN
        [kind |-> "SurfaceBoundsError", out_source_P |-> <<>>, out_delta |-> <<>>]
    ELSE IF ArgWhereBelow(P, ps) = {} THEN
        [kind |-> "EmptyReductionError", out_source_P |-> <<>>, out_delta |-> <<>>]
    ELSE
        LET sfc_ind == SetMax(ArgWhereBelow(P, ps)) IN
        [kind |-> "value",
         out_source_P |-> [P EXCEPT ![sfc_ind + 1] = ps],
         out_delta |-> [i \in 1 .. Len(d) |-> IF i - 1 >= sfc_ind THEN dsfc ELSE d[i]]]

SpliceEntry ==
    /\ \E n \in 1 .. MaxN :
          /\ rd_source_P \in Ascending(n)
          /\ rd_delta \in [1 .. n -> Values]
    /\ rd_ps_hist \in 0 .. MaxP + 1
    /\ rd_delta_sfc \in Values
    /\ rd_pc = "call"
    /\ rd_out = None
    /\ rd_err = "none"

\* one call of replace_delta_sfc
replace_delta_sfc_call ==
    /\ rd_pc = "call"
    /\ LET r == replace_delta_sfc(rd_source_P, rd_ps_hist, rd_delta, rd_delta_sfc) IN
       IF r.kind = "value"
       THEN /\ rd_pc' = "returned"
            /\ rd_out' = Some(<<r.out_source_P, r.out_delta>>)
            /\ UNCHANGED rd_err
       ELSE /\ rd_pc' = "raised"
            /\ rd_err' = r.kind
            /\ UNCHANGED rd_out
    /\ UNCHANGED <<rd_source_P, rd_ps_hist, rd_delta, rd_delta_sfc>>
    /\ UNCHANGED <<interpVars, vertVars, prefVars, harmVars>>

NextSplice == replace_delta_sfc_call

\* ------------------------------------- vert_interp_delta, interp_logp_3d
\* the grid columns (lat, lon) of the field
Columns == 1 .. 2
\* the vertical levels of the target grid
TargetLevels == 1 .. 1

\* np.log of a pressure, in units of 1/100 (strictly increasing)
LogTable == <<0, 69, 110, 139, 161, 179, 195, 208, 220, 230>>
Log(p) == LogTable[p]
LogSeq(s) == [i \in 1 .. Len(s) |-> Log(s[i])]

Reverse(s) == [i \in 1 .. Len(s) |-> s[Len(s) + 1 - i]]

\* the smallest element of a field (columns of levels)
FieldMin(f) == SeqMin([c \in Columns |-> SeqMin(f[c])])

\* the climate delta at column c, level k of the file (a value of its own
\* for every grid point)
DeltaAt(c, k) == 10 * c + k
\* the surface climate delta at column c
DeltaSfcAt(c) == 100 + c

\* interp_extrap_1d from target j on: the values, or the first error raised
RECURSIVE InterpFrom(_, _, _, _, _)
InterpFrom(x, y, tx, mode, j) ==
    IF j > Len(tx) THEN [kind |-> "value", val |-> <<>>]
    ELSE LET o == TargetOutcome(x, y, tx[j], mode, 0, 0) IN
         IF o.kind # "value" THEN [kind |-> o.kind, val |-> <<>>]
         ELSE LET r == InterpFrom(x, y, tx, mode, j + 1) IN
              IF r.kind # "value" THEN r
              ELSE [kind |-> "value", val |-> <<o.val>> \o r.val]

\* interp_extrap_1d(src_x, src_y, targ_x, extrapolate) as one call
interp_extrap_1d(x, y, tx, mode) == InterpFrom(x, y, tx, mode, 1)

\* the top guard with "<=" for "<"
TopGuardFires_Inclusive(tP, sP) == FieldMin(tP) <= FieldMin(sP)

\* "np.min(target_P) < np.min(source_P)"
TopGuardFires(tP, sP) == FieldMin(tP) < FieldMin(sP)

\* replace_delta_sfc applied to every column (xr.apply_ufunc, vectorize=True)
SpliceAll(sP, ps, d, dsfc) ==
    [c \in Columns |-> replace_delta_sfc(sP[c], ps[c], d[c], dsfc[c])]

VertEntry ==
    /\ \E n \in 1 .. MaxN :
          /\ plev \in { Reverse(a) : a \in AscendingTo(n, MaxPlev) }
          /\ delta = [c \in Columns |-> [k \in 1 .. n |-> DeltaAt(c, k)]]
    /\ target_P \in [Columns -> [TargetLevels -> 1 .. MaxPlev + 1]]
    /\ \/ delta_sfc = None /\ ps_hist = None
       \/ /\ delta_sfc = Some([c \in Columns |-> DeltaSfcAt(c)])
          /\ \E ps \in [Columns -> 1 .. MaxPlev + 1] : ps_hist = Some(ps)
    /\ ignore_top_pressure_error \in BOOLEAN
    /\ source_P = None
    /\ vpc = "sort"
    /\ verr = "none"
    /\ col = 0
    /\ tmp = None
    /\ delta_interp = None

\* reindex to ascending pressure and expand the levels to every column
vert_sort_expand ==
    /\ vpc = "sort"
    /\ plev' = Reverse(plev)
    /\ delta' = [c \in Columns |-> Reverse(delta[c])]
    /\ source_P' = [c \in Columns |-> Reverse(plev)]
    /\ vpc' = IF delta_sfc # None THEN "replace" ELSE "guard"
    /\ UNCHANGED <<target_P, delta_sfc, ps_hist, ignore_top_pressure_error,
                   verr, col, tmp, delta_interp>>
    /\ UNCHANGED <<interpVars, spliceVars, prefVars, harmVars>>

\* "if delta_sfc is not None": replace_delta_sfc on every column
vert_replace_sfc ==
    /\ vpc = "replace"
    /\ LET r == SpliceAll(source_P, ps_hist[1], delta, delta_sfc[1])
           failed == { c \in Columns : r[c].kind # "value" }
       IN  IF failed = {}
           THEN /\ source_P' = [c \in Columns |-> r[c].out_source_P]
                /\ delta' = [c \in Columns |-> r[c].out_delta]
                /\ vpc' = "guard"
                /\ UNCHANGED verr
           ELSE /\ vpc' = "raised"
                /\ verr' = r[CHOOSE c \in failed : \A e \in failed : c <= e].kind
                /\ UNCHANGED <<source_P, delta>>
    /\ UNCHANGED <<plev, target_P, delta_sfc, ps_hist, ignore_top_pressure_error,
                   col, tmp, delta_interp>>
    /\ UNCHANGED <<interpVars, spliceVars, prefVars, harmVars>>

\* the check against extrapolation at the model top
vert_top_guard ==
    /\ vpc = "guard"
    /\ IF TopGuardFires(target_P, source_P) /\ ~ignore_top_pressure_error
       THEN /\ vpc' = "raised"
            /\ verr' = "TopBoundaryError"
            /\ UNCHANGED tmp
       ELSE /\ vpc' = "interp"
            /\ tmp' = [c \in Columns |-> [j \in TargetLevels |-> Rat(0, 1)]]
            /\ UNCHANGED verr
    /\ UNCHANGED <<plev, delta, target_P, delta_sfc, ps_hist, ignore_top_pressure_error,
                   source_P, col, delta_interp>>
    /\ UNCHANGED <<interpVars, spliceVars, prefVars, harmVars>>

\* interp_1d_for_latlon: the next column, in log pressure, constant mode
interp_1d_for_latlon_col ==
    /\ vpc = "interp"
    /\ col < Cardinality(Columns)
    /\ LET c == col + 1
           r == interp_extrap_1d(LogSeq(source_P[c]), delta[c],
                                 LogSeq(target_P[c]), "constant")
       IN  IF r.kind = "value"
           THEN /\ tmp' = [tmp EXCEPT ![c] = r.val]
                /\ col' = col + 1
                /\ UNCHANGED <<vpc, verr>>
           ELSE /\ vpc' = "raised"
                /\ verr' = r.kind
                /\ UNCHANGED <<tmp, col>>
    /\ UNCHANGED <<plev, delta, target_P, delta_sfc, ps_hist, ignore_top_pressure_error,
                   source_P, delta_interp>>
    /\ UNCHANGED <<interpVars, spliceVars, prefVars, harmVars>>

\* interp_logp_3d and vert_interp_delta return the interpolated field
vert_return ==
    /\ vpc = "interp"
    /\ col = Cardinality(Columns)
    /\ vpc' = "returned"
    /\ delta_interp' = Some(tmp)
    /\ UNCHANGED <<plev, delta, target_P, delta_sfc, ps_hist, ignore_top_pressure_error,
                   source_P, verr, col, tmp>>
    /\ UNCHANGED <<interpVars, spliceVars, prefVars, harmVars>>

NextVert ==
    \/ vert_sort_expand
    \/ vert_replace_sfc
    \/ vert_top_guard
    \/ interp_1d_for_latlon_col
    \/ vert_return

\* -------------------------------------------------------- determine_p_ref
Min(a, b) == IF a < b THEN a ELSE b

\* determine_p_ref returning p whatever p_ref_last is
RECURSIVE determine_p_ref_IgnoreLast(_, _, _, _)
determine_p_ref_IgnoreLast(pe, pp, opts, last) ==
    IF opts = <<>> THEN None
    ELSE LET p == Head(opts) IN
         IF pe > p /\ pp > p THEN Some(p)
         ELSE determine_p_ref_IgnoreLast(pe, pp, Tail(opts), last)

\* determine_p_ref with ">=" for ">"
RECURSIVE determine_p_ref_NonStrict(_, _, _, _)
determine_p_ref_NonStrict(pe, pp, opts, last) ==
    IF opts = <<>> THEN None
    ELSE LET p == Head(opts) IN
         IF pe >= p /\ pp >= p
         THEN IF last = None THEN Some(p) ELSE Some(Min(p, last[1]))
         ELSE determine_p_ref_NonStrict(pe, pp, Tail(opts), last)

\* determine_p_ref(ps_era, ps_pgw, p_ref_opts, p_ref_last): the loop over the
\* candidates; None when it ends without a return
RECURSIVE determine_p_ref(_, _, _, _)
determine_p_ref(pe, pp, opts, last) ==
    IF opts = <<>> THEN None
    ELSE LET p == Head(opts) IN
         IF pe > p /\ pp > p
         THEN IF last = None THEN Some(p) ELSE Some(Min(p, last[1]))
         ELSE determine_p_ref(pe, pp, Tail(opts), last)

PRefEntry ==
    /\ \E n \in 0 .. MaxOpts : p_ref_opts \in [1 .. n -> 1 .. MaxP]
    /\ ps_era = 0
    /\ ps_pgw = 0
    /\ p_ref_last = None
    /\ p_ref = None
    /\ p_ref_hist = <<>>
    /\ ppc = "iterate"

\* one call of determine_p_ref; the next call gets its result as p_ref_last
determine_p_ref_call ==
    /\ ppc = "iterate"
    /\ Len(p_ref_hist) < MaxCalls
    /\ \E pe \in 0 .. MaxP + 1, pp \in 0 .. MaxP + 1 :
          LET r == determine_p_ref(pe, pp, p_ref_opts, p_ref_last) IN
          /\ ps_era' = pe
          /\ ps_pgw' = pp
          /\ p_ref' = r
          /\ p_ref_last' = r
          /\ p_ref_hist' = Append(p_ref_hist, r)
    /\ UNCHANGED <<p_ref_opts, ppc>>
    /\ UNCHANGED <<interpVars, spliceVars, vertVars, harmVars>>

NextPRef == determine_p_ref_call

\* --------------------------------------------------- harmonic_ac_analysis
NaN == <<0, 0>>
IsNaN(r) == r[2] = 0

\* the NaN test looking at the first element only
AnyNaN_FirstOnly(s) == Len(s) > 0 /\ IsNaN(s[1])

\* np.any(np.isnan(ts) == True)
AnyNaN(s) == \E k \in 1 .. Len(s) : IsNaN(s[k])

\* np.full_like(ts, np.nan): a new array of the shape of ts
full_like_nan(s) == [k \in 1 .. Len(s) |-> NaN]

\* the "calculation is valid" test with "<=" for "<"
HarmonicValid_Inclusive(i, P) == i <= P \div 2

\* i < q with q = math.floor(P/2.)
HarmonicValid(i, P) == i < P \div 2

\* np.cos and np.sin are tabulated in thousandths: row P holds the values at
\* the angles 2 pi k / P, k = 0 .. P-1
Scale == 1000

CosTable == <<
    <<1000>>,
    <<1000, -1000>>,
    <<1000, -500, -500>>,
    <<1000, 0, -1000, 0>>,
    <<1000, 309, -809, -809, 309>>,
    <<1000, 500, -500, -1000, -500, 500>>,
    <<1000, 623, -223, -901, -901, -223, 623>>,
    <<1000, 707, 0, -707, -1000, -707, 0, 707>>,
    <<1000, 766, 174, -500, -940, -940, -500, 174, 766>>,
    <<1000, 809, 309, -309, -809, -1000, -809, -309, 309, 809>>,
    <<1000, 841, 415, -142, -655, -959, -959, -655, -142, 415, 841>>,
    <<1000, 866, 500, 0, -500, -866, -1000, -866, -500, 0, 500, 866>>>>

SinTable == <<
    <<0>>,
    <<0, 0>>,
    <<0, 866, -866>>,
    <<0, 1000, 0, -1000>>,
    <<0, 951, 588, -588, -951>>,
    <<0, 866, 866, 0, -866, -866>>,
    <<0, 782, 975, 434, -434, -975, -782>>,
    <<0, 707, 1000, 707, 0, -707, -1000, -707>>,
    <<0, 643, 985, 866, 342, -342, -866, -985, -643>>,
    <<0, 588, 951, 951, 588, 0, -588, -951, -951, -588>>,
    <<0, 541, 910, 990, 756, 282, -282, -756, -990, -910, -541>>,
    <<0, 500, 866, 1000, 866, 500, 0, -500, -866, -1000, -866, -500>>>>

\* np.cos(bracket)[t] and np.sin(bracket)[t], bracket = 2 pi i / P * timevector
\* and timevector[t] = t, in units of 1/Scale
CosBracket(i, P, t) == CosTable[P][((i * t) % P) + 1]
SinBracket(i, P, t) == SinTable[P][((i * t) % P) + 1]

\* the sum of the numerators of the first n elements of a NaN-free series
RECURSIVE SumTo(_, _)
SumTo(s, n) == IF n = 0 THEN 0 ELSE SumTo(s, n - 1) + s[n][1]

\* ts.mean(); the mean of an empty array is NaN
Mean(s) == Rat(SumTo(s, Len(s)), Len(s))

\* ts.dot(np.cos(bracket)) and ts.dot(np.sin(bracket)) over the first n
\* elements, in units of 1/Scale
RECURSIVE DotCos(_, _, _)
DotCos(s, i, n) ==
    IF n = 0 THEN 0 ELSE DotCos(s, i, n - 1) + s[n][1] * CosBracket(i, Len(s), n)

RECURSIVE DotSin(_, _, _)
DotSin(s, i, n) ==
    IF n = 0 THEN 0 ELSE DotSin(s, i, n - 1) + s[n][1] * SinBracket(i, Len(s), n)

\* a * np.cos(bracket) + b * np.sin(bracket) with a = 2./lt * ts.dot(cos) and
\* b = 2./lt * ts.dot(sin), in units of 1/(lt * Scale * Scale)
Harmonic(s, i) ==
    LET a == 2 * DotCos(s, i, Len(s))
        b == 2 * DotSin(s, i, Len(s))
    IN [t \in 1 .. Len(s) |->
           a * CosBracket(i, Len(s), t) + b * SinBracket(i, Len(s), t)]

\* sum(hcts[0:3,:]) + mean
Reconstruct(h, m, P) ==
    [t \in 1 .. P |->
        Rat(h[1][t] + h[2][t] + h[3][t] + m[1] * Scale * Scale, P * Scale * Scale)]

TsElems == {NaN} \cup {<<v, 1>> : v \in TsValues}

HarmEntry ==
    /\ \E n \in 0 .. MaxLt : ts \in [1 .. n -> TsElems]
    /\ ts_at_call = ts
    /\ mean = None
    /\ hcts = <<>>
    /\ mode_i = 0
    /\ hpc = "entry"
    /\ smooths = None
    /\ herr = "none"

\* the branch taken when the series holds a NaN
harmonic_nan_return ==
    /\ hpc = "entry"
    /\ AnyNaN(ts)
    /\ smooths' = Some(full_like_nan(ts))
    /\ hpc' = "returned"
    /\ UNCHANGED <<ts, ts_at_call, mean, hcts, mode_i, herr>>
    /\ UNCHANGED <<interpVars, spliceVars, vertVars, prefVars>>

\* the else branch up to the loop: mean, hcts = np.zeros((4,lt))
harmonic_setup ==
    /\ hpc = "entry"
    /\ ~ AnyNaN(ts)
    /\ mean' = Some(Mean(ts))
    /\ hcts' = [r \in 1 .. 4 |-> [t \in 1 .. Len(ts) |-> 0]]
    /\ mode_i' = 1
    /\ hpc' = "mode"
    /\ UNCHANGED <<ts, ts_at_call, smooths, herr>>
    /\ UNCHANGED <<interpVars, spliceVars, vertVars, prefVars>>

\* one pass of "for i in range(1,4)" whose calculation is valid
harmonic_mode ==
    /\ hpc = "mode"
    /\ mode_i \in 1 .. 3
    /\ HarmonicValid(mode_i, Len(ts))
    /\ hcts' = [hcts EXCEPT ![mode_i] = Harmonic(ts, mode_i)]
    /\ mode_i' = mode_i + 1
    /\ UNCHANGED <<ts, ts_at_call, mean, hpc, smooths, herr>>
    /\ UNCHANGED <<interpVars, spliceVars, vertVars, prefVars>>

\* the pass that aborts: sys.exit(..) raises SystemExit when the name sys is
\* bound through "from settings import *"; functions.py itself does not import
\* sys, and evaluating the unbound name raises NameError
harmonic_exit ==
    /\ hpc = "mode"
    /\ mode_i \in 1 .. 3
    /\ ~ HarmonicValid(mode_i, Len(ts))
    /\ \E e \in {"SystemExit", "NameError"} : herr' = e
    /\ hpc' = "raised"
    /\ UNCHANGED <<ts, ts_at_call, mean, hcts, mode_i, smooths>>
    /\ UNCHANGED <<interpVars, spliceVars, vertVars, prefVars>>

\* after the loop
harmonic_return ==
    /\ hpc = "mode"
    /\ mode_i = 4
    /\ smooths' = Some(Reconstruct(hcts, mean[1], Len(ts)))
    /\ hpc' = "returned"
    /\ UNCHANGED <<ts, ts_at_call, mean, hcts, mode_i, herr>>
    /\ UNCHANGED <<interpVars, spliceVars, vertVars, prefVars>>

NextHarm ==
    \/ harmonic_nan_return
    \/ harmonic_setup
    \/ harmonic_mode
    \/ harmonic_exit
    \/ harmonic_return

\* ------------------------------------------------------- specifications
IdleInterp ==
    /\ src_x = <<>> /\ src_y = <<>> /\ targ_x = <<>> /\ targ_y = <<>>
    /\ extrapolate = "off" /\ ti = 0 /\ ipc = "idle"
    /\ iret = None /\ ierr = "none" /\ ioob = FALSE

IdleSplice ==
    /\ rd_source_P = <<>> /\ rd_delta = <<>> /\ rd_ps_hist = 0 /\ rd_delta_sfc = 0
    /\ rd_pc = "idle" /\ rd_out = None /\ rd_err = "none"

IdleVert ==
    /\ plev = <<>> /\ delta = <<>> /\ target_P = <<>> /\ delta_sfc = None
    /\ ps_hist = None /\ ignore_top_pressure_error = FALSE /\ source_P = None
    /\ vpc = "idle" /\ verr = "none" /\ col = 0 /\ tmp = None /\ delta_interp = None

IdlePRef ==
    /\ p_ref_opts = <<>> /\ ps_era = 0 /\ ps_pgw = 0
    /\ p_ref_last = None /\ p_ref = None /\ p_ref_hist = <<>> /\ ppc = "idle"

IdleHarm ==
    /\ ts = <<>> /\ ts_at_call = <<>> /\ mean = None /\ hcts = <<>>
    /\ mode_i = 0 /\ hpc = "idle" /\ smooths = None /\ herr = "none"

InitInterp == InterpEntry /\ IdleSplice /\ IdleVert /\ IdlePRef /\ IdleHarm

InitSplice == SpliceEntry /\ IdleInterp /\ IdleVert /\ IdlePRef /\ IdleHarm

InitVert == VertEntry /\ IdleInterp /\ IdleSplice /\ IdlePRef /\ IdleHarm

InitPRef == PRefEntry /\ IdleInterp /\ IdleSplice /\ IdleVert /\ IdleHarm

InitHarm == HarmEntry /\ IdleInterp /\ IdleSplice /\ IdleVert /\ IdlePRef

SpecHarm == InitHarm /\ [][NextHarm]_vars

SpecPRef == InitPRef /\ [][NextPRef]_vars

\* any one of the operations
Init == InitInterp \/ InitSplice \/ InitVert \/ InitPRef \/ InitHarm

Next == NextInterp \/ NextSplice \/ NextVert \/ NextPRef \/ NextHarm

Spec == Init /\ [][Next]_vars

SpecVert == InitVert /\ [][NextVert]_vars

SpecInterp == InitInterp /\ [][NextInterp]_vars

SpecSplice == InitSplice /\ [][NextSplice]_vars

\* ------------------------------------------------- claims: interp_extrap_1d
\* t lies below the first or above the last source pressure
Outside(t) == t < src_x[1] \/ t > src_x[Len(src_x)]

AllInside == \A j \in 1 .. Len(targ_x) : ~Outside(targ_x[j])

\* C1: in mode 'off', with every target within [min(src_p), max(src_p)] of an
\* ascending column, the call never fails, and every target already computed
\* that equals some src_p[i] (the first and the last included) has exactly
\* src_v[i]; the returned sequence is the computed one.
C1_OffInsideExact ==
    (extrapolate = "off" /\ AllInside) =>
        /\ ipc # "raised"
        /\ \A j \in 1 .. ti : \A i \in 1 .. Len(src_x) :
              targ_x[j] = src_x[i] => RatEqInt(targ_y[j], src_y[i])
        /\ (ipc = "returned" => iret = Some(targ_y) /\ ti = Len(targ_x))
        /\ (ipc = "loop" => ENABLED NextInterp)

C1_Witness ==
    /\ extrapolate = "off" /\ AllInside /\ ipc = "returned"
    /\ Len(src_x) >= 2 /\ src_y[1] # 0 /\ src_y[Len(src_x)] # 0
    /\ src_y[1] # src_y[Len(src_x)]
    /\ \E j \in 1 .. Len(targ_x) : targ_x[j] = src_x[1]
    /\ \E j \in 1 .. Len(targ_x) : targ_x[j] = src_x[Len(src_x)]

C3_OffFailsIffOutside ==
    extrapolate = "off" =>
        /\ \A j \in 1 .. ti : ~Outside(targ_x[j])
        /\ (ipc = "raised" =>
              /\ ierr = "OutOfRangeError"
              /\ Outside(targ_x[ti + 1])
              /\ iret = None)
        /\ (ipc = "returned" => AllInside /\ iret # None)
        /\ (ipc = "loop" => ENABLED NextInterp)

C3_Witness ==
    /\ extrapolate = "off" /\ ipc = "raised" /\ ierr = "OutOfRangeError"
    /\ ti >= 1 /\ targ_x[ti + 1] > src_x[Len(src_x)]
    /\ targ_y[1] # Rat(0, 1)

\* C10: in mode 'constant' the call never fails; a target strictly below the
\* first source pressure gets src_v[0], one strictly above the last gets
\* src_v[N-1], and every value computed lies within [min(src_v), max(src_v)].
C10_ConstantWithinRange ==
    extrapolate = "constant" =>
        /\ ipc # "raised"
        /\ ~ioob
        /\ \A j \in 1 .. ti :
              /\ targ_x[j] < src_x[1] => RatEqInt(targ_y[j], src_y[1])
              /\ targ_x[j] > src_x[Len(src_x)] =>
                    RatEqInt(targ_y[j], src_y[Len(src_y)])
              /\ RatGeInt(targ_y[j], SeqMin(src_y))
              /\ RatLeInt(targ_y[j], SeqMax(src_y))

C10_Witness ==
    /\ extrapolate = "constant" /\ ipc = "returned"
    /\ Len(src_x) >= 2 /\ src_y[1] # src_y[Len(src_x)]
    /\ \E j \in 1 .. Len(targ_x) : targ_x[j] < src_x[1]
    /\ \E j \in 1 .. Len(targ_x) : targ_x[j] > src_x[Len(src_x)]

\* ------------------------------------------------ claims: replace_delta_sfc
\* the pair replace_delta_sfc returned
OutP == rd_out[1][1]
OutDelta == rd_out[1][2]

\* the indices (1-based) at which the returned pressures differ from the given
Replaced == { i \in 1 .. Len(rd_source_P) : OutP[i] # rd_source_P[i] }

\* C5: whenever replace_delta_sfc succeeds on an ascending column, exactly one
\* pressure, at index k, was replaced by surface_pressure; every returned
\* profile value at index >= k equals surface_value; and the returned
\* pressures are still ascending (monotonic) over all indices.
C5_SplicedFromSurfaceDown ==
    rd_pc = "returned" =>
        /\ Len(OutP) = Len(rd_source_P) /\ Len(OutDelta) = Len(rd_delta)
        /\ \E k \in 1 .. Len(rd_source_P) :
              /\ Replaced = {k}
              /\ OutP[k] = rd_ps_hist
              /\ \A i \in k .. Len(OutDelta) : OutDelta[i] = rd_delta_sfc
        /\ \A i \in 1 .. Len(OutP) - 1 : OutP[i] <= OutP[i + 1]

C5_Witness ==
    /\ rd_pc = "returned"
    /\ Len(rd_source_P) >= 3
    /\ Replaced = {2}
    /\ rd_delta[3] # rd_delta_sfc /\ rd_delta[1] # rd_delta_sfc
    /\ OutDelta[3] = rd_delta_sfc

\* the deepest index (1-based) whose source pressure is less than ps
DeepestAbove(P, ps) ==
    CHOOSE k \in 1 .. Len(P) : P[k] < ps /\ \A i \in k + 1 .. Len(P) : P[i] >= ps

\* C6: replace_delta_sfc fails, with the surface-bounds error and without a
\* result, exactly when surface_pressure is less than every source pressure;
\* for every other surface_pressure (one equal to the shallowest or deepest
\* source pressure included) it returns the spliced pair: the deepest level
\* replaced when surface_pressure exceeds every level, otherwise the deepest
\* level above the surface replaced and it and all deeper values overwritten.
C6_FailsOnlyAboveAllLevels ==
    rd_pc # "call" /\ rd_pc # "idle" =>
        LET P == rd_source_P
            n == Len(rd_source_P)
            above == \A i \in 1 .. n : rd_ps_hist < P[i]
        IN  /\ above => rd_pc = "raised" /\ rd_err = "SurfaceBoundsError" /\ rd_out = None
            /\ ~above =>
                  /\ rd_pc = "returned"
                  /\ IF \A i \in 1 .. n : rd_ps_hist > P[i]
                     THEN /\ OutP = [P EXCEPT ![n] = rd_ps_hist]
                          /\ OutDelta = [rd_delta EXCEPT ![n] = rd_delta_sfc]
                     ELSE LET k == DeepestAbove(P, rd_ps_hist) IN
                          /\ OutP = [P EXCEPT ![k] = rd_ps_hist]
                          /\ OutDelta = [i \in 1 .. n |->
                                            IF i >= k THEN rd_delta_sfc ELSE rd_delta[i]]

\* ------------------------------------------------ claims: vert_interp_delta
\* C4: with surface values supplied, in a field in which no column's ps_hist
\* is below the shallowest source level and the top guard does not stop the
\* call, vert_interp_delta returns, and in every column every target pressure
\* t >= ps_hist has exactly the surface delta of that column.
C4_BelowSurfaceGetsSurfaceDelta ==
    ( /\ delta_sfc # None
      /\ vpc \in {"returned", "raised"}
      /\ verr # "TopBoundaryError"
      /\ \A c \in Columns : ps_hist[1][c] >= SeqMin(plev) ) =>
        /\ vpc = "returned"
        /\ \A c \in Columns : \A j \in TargetLevels :
              target_P[c][j] >= ps_hist[1][c] =>
                  RatEqInt(delta_interp[1][c][j], DeltaSfcAt(c))

\* some target pressure of the field is less than every source pressure
BelowEverySource ==
    \E c \in Columns : \E j \in TargetLevels :
        \A c2 \in Columns : \A i \in 1 .. Len(source_P[c2]) :
            target_P[c][j] < source_P[c2][i]

\* C9: vert_interp_delta raises the top-boundary error only when some target
\* pressure is below every source pressure of the field and
\* ignore_top_pressure_error is false, and then before any column is
\* interpolated; such an input never passes the guard.  With the flag true
\* the guard never stops the call, the interpolation itself never fails, and
\* every target above the top of its column has the value of the column's
\* shallowest source level.
C9_TopGuard ==
    /\ verr = "TopBoundaryError" =>
          /\ vpc = "raised" /\ BelowEverySource /\ ~ignore_top_pressure_error
          /\ col = 0 /\ tmp = None /\ delta_interp = None
    /\ vpc \in {"interp", "returned"} =>
          /\ BelowEverySource => ignore_top_pressure_error
          /\ \A c \in 1 .. col : \A j \in TargetLevels :
                target_P[c][j] < source_P[c][1] => RatEqInt(tmp[c][j], delta[c][1])
    /\ vpc = "raised" =>
          verr \in {"TopBoundaryError", "SurfaceBoundsError", "EmptyReductionError"}
    /\ vpc = "returned" => delta_interp = Some(tmp) /\ col = Cardinality(Columns)

C9_Witness ==
    /\ vpc = "returned" /\ ignore_top_pressure_error /\ BelowEverySource
    /\ Len(plev) >= 2
    /\ \A c \in Columns : \E j \in TargetLevels :
          target_P[c][j] < source_P[c][1] /\ RatEqInt(delta_interp[1][c][j], delta[c][1])

LastGiven ==
    IF Len(p_ref_hist) >= 2 THEN p_ref_hist[Len(p_ref_hist) - 1] ELSE None

Qualifies(p) == ps_era > p /\ ps_pgw > p

\* C8: the latest call returned none exactly when no candidate has both
\* surface pressures strictly above it; otherwise it returned the first such
\* candidate in the order given, or the smaller of it and p_ref_last when
\* p_ref_last was given; and the level returned is strictly below both surface
\* pressures.
C8_FirstQualifying ==
    Len(p_ref_hist) >= 1 =>
        /\ p_ref = None <=> ~ \E i \in 1 .. Len(p_ref_opts) : Qualifies(p_ref_opts[i])
        /\ p_ref # None =>
              /\ \E i \in 1 .. Len(p_ref_opts) :
                    /\ Qualifies(p_ref_opts[i])
                    /\ \A k \in 1 .. i - 1 : ~Qualifies(p_ref_opts[k])
                    /\ p_ref[1] = IF LastGiven = None THEN p_ref_opts[i]
                                  ELSE IF p_ref_opts[i] < LastGiven[1]
                                       THEN p_ref_opts[i] ELSE LastGiven[1]
              /\ p_ref[1] < ps_era /\ p_ref[1] < ps_pgw

C8_Witness ==
    /\ Len(p_ref_hist) >= 1 /\ p_ref # None
    /\ Len(p_ref_opts) >= 3
    /\ ~Qualifies(p_ref_opts[1])
    /\ Qualifies(p_ref_opts[2]) /\ Qualifies(p_ref_opts[3])
    /\ p_ref_opts[3] < p_ref_opts[2]
    /\ p_ref[1] = p_ref_opts[2]

\* --------------------------------------------- claims: harmonic_ac_analysis
\* some element of the series is NaN
HasNaN == \E k \in DOMAIN ts : ts[k] = <<0, 0>>

\* C11: a NaN-free series of length P < 8 (some harmonic index i in 1..3 has
\* not i < floor(P/2)) makes harmonic_ac_analysis fail at the too-short abort
\* without ever reaching the return, so no smoothed series exists; a NaN-free
\* series of length P >= 8 never fails, and what it returns has length P and
\* no NaN.
C11_ShortSeriesFailsElseLengthP ==
    (hpc # "idle" /\ ~ HasNaN) =>
        /\ Len(ts) < 8 =>
              /\ hpc \in {"entry", "mode", "raised"}
              /\ smooths = None
              /\ hpc = "mode" => mode_i \in 1 .. 3
              /\ hpc = "raised" =>
                    /\ herr \in {"SystemExit", "NameError"}
                    /\ mode_i \in 1 .. 3
                    /\ ~ (mode_i < Len(ts) \div 2)
                    /\ \A j \in 1 .. mode_i - 1 : j < Len(ts) \div 2
        /\ Len(ts) >= 8 =>
              /\ hpc \in {"entry", "mode", "returned"}
              /\ herr = "none"
              /\ hpc = "mode" => mode_i \in 1 .. 4
              /\ hpc = "returned" =>
                    /\ smooths # None
                    /\ Len(smooths[1]) = Len(ts)
                    /\ \A k \in 1 .. Len(ts) : smooths[1][k][2] > 0

\* a series of seven numbers fails at the third harmonic, after the first two
\* were computed
C11_Witness ==
    /\ hpc = "raised"
    /\ ~ HasNaN
    /\ Len(ts) = 7
    /\ mode_i = 3
    /\ \E t \in 1 .. 7 : hcts[1][t] # 0
    /\ smooths = None

\* a series of eight numbers is smoothed
C11_ReturnedLongSeries ==
    /\ hpc = "returned"
    /\ ~ HasNaN
    /\ Len(ts) >= 8
    /\ \E k \in 1 .. Len(ts) : ts[k] # ts[1]

\* C12: for a series of any length that holds at least one NaN,
\* harmonic_ac_analysis returns straight from the NaN check: it never enters
\* the harmonic loop and never fails, however short the series is, what it
\* returns has the length of the series and only NaN elements, and the
\* caller's array still holds what it held at the call.
C12_AnyNaNGivesAllNaN ==
    (hpc # "idle" /\ HasNaN) =>
        /\ hpc \in {"entry", "returned"}
        /\ herr = "none"
        /\ mean = <<>> /\ hcts = <<>> /\ mode_i = 0
        /\ ts = ts_at_call
        /\ hpc = "entry" => smooths = <<>>
        /\ hpc = "returned" =>
              /\ smooths # <<>>
              /\ Len(smooths[1]) = Len(ts)
              /\ \A k \in 1 .. Len(ts) : smooths[1][k] = <<0, 0>>

\* a series too short for three harmonics whose only NaN is not its first
\* element has been answered with NaN throughout
C12_Witness ==
    /\ hpc = "returned"
    /\ Len(ts) \in 2 .. 7
    /\ ts[1] # <<0, 0>>
    /\ ts[Len(ts)] = <<0, 0>>
    /\ \A k \in 1 .. Len(ts) - 1 : ts[k] # <<0, 0>>
    /\ Len(smooths[1]) = Len(ts)
    /\ ts = ts_at_call
====
